---- MODULE Spec2Model ----
(***************************************************************************)
(* Tab Harvester backend (src/main.py): the POST /api/summarize handler    *)
(* summarize_tab, its text sanitizer and its two stores, archived_tabs and *)
(* system_metrics.  Text is a sequence of one-character strings; the one   *)
(* character a TLA+ string cannot hold, U+0060, is the token Backtick.     *)
(***************************************************************************)
EXTENDS Integers, Sequences, FiniteSets, TLC

(***************************************************************************)
(* Python str operations used by the handler.                              *)
(***************************************************************************)

\* Characters str.strip() removes (space, newline, tab, carriage return, form feed).
PyWhitespace == {" ", "\n", "\t", "\r", "\f"}

\* Whitespace json.loads skips between tokens (form feed is not among them).
JsonWhitespace == {" ", "\n", "\t", "\r"}

\* The character U+0060 (grave accent).
Backtick == "BACKTICK"

\* The fence marker the handler looks for: three of them.
Fence == <<Backtick, Backtick, Backtick>>

\* s[a..b], empty when b < a.
Slice(s, a, b) == IF b < a THEN << >> ELSE SubSeq(s, a, b)

\* raw_text[:n]
Prefix(s, n) == IF Len(s) <= n THEN s ELSE SubSeq(s, 1, n)

RECURSIVE LStripFrom(_, _)
\* First index at or after i holding a non-whitespace character (Len(s)+1 if none).
LStripFrom(s, i) ==
    IF i > Len(s) THEN i
    ELSE IF s[i] \in PyWhitespace THEN LStripFrom(s, i + 1) ELSE i

RECURSIVE RStripTo(_, _)
\* Last index at or before j holding a non-whitespace character (0 if none).
RStripTo(s, j) ==
    IF j < 1 THEN 0
    ELSE IF s[j] \in PyWhitespace THEN RStripTo(s, j - 1) ELSE j

\* str.strip()
Strip(s) ==
    LET a == LStripFrom(s, 1)
        b == RStripTo(s, Len(s))
    IN  Slice(s, a, b)

\* Does p occur in s at index i?
MatchAt(s, p, i) ==
    /\ i >= 1
    /\ i + Len(p) - 1 <= Len(s)
    /\ \A k \in 1..Len(p) : s[i + k - 1] = p[k]

\* str.startswith(p)
StartsWith(s, p) == MatchAt(s, p, 1)

\* Index of the first occurrence of p in s, 0 if none (str.find + 1).
Find(s, p) ==
    LET hits == {i \in 1..Len(s) : MatchAt(s, p, i)}
    IN  IF hits = {} THEN 0 ELSE CHOOSE i \in hits : \A j \in hits : i <= j

\* Index of the last occurrence of p in s, 0 if none (str.rfind + 1).
RFind(s, p) ==
    LET hits == {i \in 1..Len(s) : MatchAt(s, p, i)}
    IN  IF hits = {} THEN 0 ELSE CHOOSE i \in hits : \A j \in hits : i >= j

\* s.split("\n", 1): one part when s has no newline, else two.
SplitFirstLine(s) ==
    LET i == Find(s, <<"\n">>)
    IN  IF i = 0 THEN <<s>>
        ELSE <<Slice(s, 1, i - 1), Slice(s, i + 1, Len(s))>>

\* Mutant of BeforeLastFence: split in place of rsplit, the text before the
\* first fence.
BeforeFirstFence(s) ==
    LET i == Find(s, Fence)
    IN  IF i = 0 THEN s ELSE Slice(s, 1, i - 1)

\* s.rsplit(fence, 1)[0]: the text before the last fence, all of s when none.
BeforeLastFence(s) ==
    LET i == RFind(s, Fence)
    IN  IF i = 0 THEN s ELSE Slice(s, 1, i - 1)

(***************************************************************************)
(* json.loads.  A parsed value is a record with the same four fields for   *)
(* every JSON type: t is the type, s the characters of a string or of an   *)
(* integer literal, keys and items the members of an object in source      *)
(* order, items the elements of an array.  Floats and \u, \b escapes are   *)
(* not parsed; no text drawn below contains them.                          *)
(***************************************************************************)
MkNull == [t |-> "null", s |-> << >>, keys |-> << >>, items |-> << >>]
MkBool(b) == [t |-> IF b THEN "true" ELSE "false", s |-> << >>, keys |-> << >>, items |-> << >>]
MkStr(chars) == [t |-> "str", s |-> chars, keys |-> << >>, items |-> << >>]
MkInt(digits) == [t |-> "int", s |-> digits, keys |-> << >>, items |-> << >>]
MkList(elems) == [t |-> "list", s |-> << >>, keys |-> << >>, items |-> elems]
MkObj(ks, vs) == [t |-> "obj", s |-> << >>, keys |-> ks, items |-> vs]

\* What a parsing step returns: the value and the index after it, or a failure.
ParseFail == [ok |-> FALSE, val |-> MkNull, next |-> 0]
ParseOk(v, n) == [ok |-> TRUE, val |-> v, next |-> n]

Digits == {"0", "1", "2", "3", "4", "5", "6", "7", "8", "9"}

\* Characters json.loads (strict) rejects inside a string literal.
ControlChars == {"\n", "\t", "\r", "\f"}

\* The character a backslash escape stands for, << >> for an escape not parsed.
Unescape(c) ==
    CASE c = "\"" -> <<"\"">>
      [] c = "\\" -> <<"\\">>
      [] c = "/"  -> <<"/">>
      [] c = "n"  -> <<"\n">>
      [] c = "t"  -> <<"\t">>
      [] c = "r"  -> <<"\r">>
      [] c = "f"  -> <<"\f">>
      [] OTHER    -> << >>

RECURSIVE JsonSkip(_, _)
\* First index at or after i that holds no JSON whitespace.
JsonSkip(s, i) ==
    IF i > Len(s) THEN i
    ELSE IF s[i] \in JsonWhitespace THEN JsonSkip(s, i + 1) ELSE i

RECURSIVE ScanString(_, _, _)
\* The rest of a string literal whose opening quote precedes index i.
ScanString(s, i, acc) ==
    IF i > Len(s) THEN ParseFail
    ELSE IF s[i] = "\"" THEN ParseOk(MkStr(acc), i + 1)
    ELSE IF s[i] = "\\" THEN
        IF i + 1 > Len(s) \/ Unescape(s[i + 1]) = << >> THEN ParseFail
        ELSE ScanString(s, i + 2, acc \o Unescape(s[i + 1]))
    ELSE IF s[i] \in ControlChars THEN ParseFail
    ELSE ScanString(s, i + 1, Append(acc, s[i]))

RECURSIVE ScanDigits(_, _)
\* First index at or after i that holds no digit.
ScanDigits(s, i) ==
    IF i > Len(s) THEN i
    ELSE IF s[i] \in Digits THEN ScanDigits(s, i + 1) ELSE i

\* An integer literal at index i: an optional minus, then 0 or a digit string
\* with no leading zero.
ScanInt(s, i) ==
    LET d == IF s[i] = "-" THEN i + 1 ELSE i
        e == ScanDigits(s, d)
    IN  IF e = d THEN ParseFail
        ELSE IF s[d] = "0" THEN ParseOk(MkInt(Slice(s, i, d)), d + 1)
        ELSE ParseOk(MkInt(Slice(s, i, e - 1)), e)

RECURSIVE ParseValue(_, _)
RECURSIVE ParseItems(_, _, _)
RECURSIVE ParseMembers(_, _, _, _)

\* The JSON value that starts at index i (whitespace already skipped).
ParseValue(s, i) ==
    IF i > Len(s) THEN ParseFail
    ELSE IF s[i] = "\"" THEN ScanString(s, i + 1, << >>)
    ELSE IF s[i] = "[" THEN
        LET j == JsonSkip(s, i + 1)
        IN  IF j <= Len(s) /\ s[j] = "]" THEN ParseOk(MkList(<< >>), j + 1)
            ELSE ParseItems(s, j, << >>)
    ELSE IF s[i] = "{" THEN
        LET j == JsonSkip(s, i + 1)
        IN  IF j <= Len(s) /\ s[j] = "}" THEN ParseOk(MkObj(<< >>, << >>), j + 1)
            ELSE ParseMembers(s, j, << >>, << >>)
    ELSE IF MatchAt(s, <<"n", "u", "l", "l">>, i) THEN ParseOk(MkNull, i + 4)
    ELSE IF MatchAt(s, <<"t", "r", "u", "e">>, i) THEN ParseOk(MkBool(TRUE), i + 4)
    ELSE IF MatchAt(s, <<"f", "a", "l", "s", "e">>, i) THEN ParseOk(MkBool(FALSE), i + 5)
    ELSE IF s[i] = "-" \/ s[i] \in Digits THEN ScanInt(s, i)
    ELSE ParseFail

\* The elements of an array from index i (the start of an element) to its "]".
ParseItems(s, i, acc) ==
    LET r == ParseValue(s, i)
        j == JsonSkip(s, r.next)
    IN  IF ~r.ok \/ j > Len(s) THEN ParseFail
        ELSE IF s[j] = "," THEN ParseItems(s, JsonSkip(s, j + 1), Append(acc, r.val))
        ELSE IF s[j] = "]" THEN ParseOk(MkList(Append(acc, r.val)), j + 1)
        ELSE ParseFail

\* The members of an object from index i (the start of a key) to its "}".
ParseMembers(s, i, ks, vs) ==
    IF i > Len(s) \/ s[i] # "\"" THEN ParseFail
    ELSE
        LET k == ScanString(s, i + 1, << >>)
            c == JsonSkip(s, k.next)
            r == ParseValue(s, JsonSkip(s, c + 1))
            j == JsonSkip(s, r.next)
        IN  IF ~k.ok \/ c > Len(s) \/ s[c] # ":" THEN ParseFail
            ELSE IF ~r.ok \/ j > Len(s) THEN ParseFail
            ELSE IF s[j] = "," THEN
                ParseMembers(s, JsonSkip(s, j + 1), Append(ks, k.val.s), Append(vs, r.val))
            ELSE IF s[j] = "}" THEN
                ParseOk(MkObj(Append(ks, k.val.s), Append(vs, r.val)), j + 1)
            ELSE ParseFail

\* json.loads(s): the single value of the document; JSONDecodeError (ok = FALSE)
\* for no value or for text after it.
JsonLoads(s) ==
    LET r == ParseValue(s, JsonSkip(s, 1))
    IN  IF r.ok /\ JsonSkip(s, r.next) = Len(s) + 1 THEN r ELSE ParseFail

\* dict.get(key, default): the last member with that key wins.
DictGet(obj, key, default) ==
    LET hits == {i \in 1..Len(obj.keys) : obj.keys[i] = key}
    IN  IF hits = {} THEN default
        ELSE obj.items[CHOOSE i \in hits : \A j \in hits : i >= j]

\* Python truth value of a parsed value.
Truthy(v) ==
    CASE v.t = "str"  -> v.s # << >>
      [] v.t = "list" -> v.items # << >>
      [] v.t = "obj"  -> v.keys # << >>
      [] v.t = "int"  -> \E i \in 1..Len(v.s) : v.s[i] \in Digits \ {"0"}
      [] v.t = "true" -> TRUE
      [] OTHER        -> FALSE

(***************************************************************************)
(* The try block of summarize_tab after the model answered.                *)
(***************************************************************************)
KeySummary == <<"s", "u", "m", "m", "a", "r", "y">>
KeyTags == <<"t", "a", "g", "s">>

\* Lines 96-102: strip the text and, when it starts with a fence, drop the
\* first line and what follows the last fence.  exc names the exception raised
\* ([1] on a one-part split is an IndexError).
StripFences(text) ==
    LET stripped == Strip(text)
        parts == SplitFirstLine(stripped)
    IN  IF ~StartsWith(stripped, Fence) THEN [exc |-> "none", raw_text |-> stripped]
        ELSE IF Len(parts) < 2 THEN [exc |-> "IndexError", raw_text |-> stripped]
        ELSE [exc |-> "none", raw_text |-> Strip(BeforeLastFence(parts[2]))]

\* Mutant of UnexpectedStructure: the summary is not checked.
UnexpectedStructureTagsOnly(summary, tags) == tags.t # "list"

\* Line 108: the only shape check the handler makes.
UnexpectedStructure(summary, tags) == ~Truthy(summary) \/ tags.t # "list"

\* Lines 104-109 on the text left by StripFences.
ParseResult(raw_text) ==
    LET r == JsonLoads(raw_text)
        result == r.val
        summary == DictGet(result, KeySummary, MkStr(<< >>))
        tags == DictGet(result, KeyTags, MkList(<< >>))
        none == [exc |-> "none", raw_text |-> raw_text, summary |-> MkNull, tags |-> MkNull]
    IN  IF ~r.ok THEN [none EXCEPT !.exc = "JSONDecodeError"]
        ELSE IF result.t # "obj" THEN [none EXCEPT !.exc = "AttributeError"]
        ELSE IF UnexpectedStructure(summary, tags) THEN [none EXCEPT !.exc = "ValueError"]
        ELSE [none EXCEPT !.summary = summary, !.tags = tags]

\* Lines 96-109: what the handler makes of the text the model returned.
ParseModelText(text) ==
    LET f == StripFences(text)
    IN  IF f.exc # "none"
        THEN [exc |-> f.exc, raw_text |-> f.raw_text, summary |-> MkNull, tags |-> MkNull]
        ELSE ParseResult(f.raw_text)

\* SummarizeResponse (lines 72-75): summary: str, tags: list[str].  Building the
\* response with any other value raises pydantic's ValidationError.
IsStrList(v) == v.t = "list" /\ \A i \in 1..Len(v.items) : v.items[i].t = "str"
ResponseModelAccepts(summary, tags) == summary.t = "str" /\ IsStrList(tags)

(***************************************************************************)
(* The prompt of the model call and the detail messages of the errors.     *)
(***************************************************************************)

\* Line 91: the cap on the page content that goes into the prompt.
ContentCap == 30000

\* Mutant of UserPrompt: the content goes into the prompt whole.
UserPromptUncapped(p) ==
    "Title: " \o p.title \o "\nURL: " \o p.url \o "\n\nPage content:\n" \o p.content

\* Lines 88-92: the prompt built from the request (its fields are strings).
UserPrompt(p) ==
    "Title: " \o p.title \o "\nURL: " \o p.url \o "\n\nPage content:\n"
        \o Prefix(p.content, ContentCap)

\* Line 114: how much of raw_text goes into the detail of a parse failure.
DetailCap == 200

\* Lines 114 and 119: what the two 502 details start with.
DetailNonJson ==
    <<"G", "e", "m", "i", "n", "i", " ", "r", "e", "t", "u", "r", "n", "e", "d", " ", "n", "o",
      "n", "-", "J", "S", "O", "N", " ", "r", "e", "s", "p", "o", "n", "s", "e", ":", " ">>
DetailVertex ==
    <<"V", "e", "r", "t", "e", "x", " ", "A", "I", " ", "e", "r", "r", "o", "r", ":", " ">>

\* The longest detail of a parse failure.
DetailBound == Len(DetailNonJson) + DetailCap

\* Line 134: what the detail of a failed insert starts with.
DetailInsert ==
    <<"S", "u", "p", "a", "b", "a", "s", "e", " ", "i", "n", "s", "e", "r", "t", " ", "e", "r",
      "r", "o", "r", ":", " ">>

\* str(e) of the exceptions raised inside the try block: line 109, [1] of a
\* one-part split (line 101), .get of a value that is no dict (line 105).
MsgUnexpected ==
    <<"M", "o", "d", "e", "l", " ", "r", "e", "t", "u", "r", "n", "e", "d", " ", "u", "n", "e",
      "x", "p", "e", "c", "t", "e", "d", " ", "s", "t", "r", "u", "c", "t", "u", "r", "e">>
MsgIndex ==
    <<"l", "i", "s", "t", " ", "i", "n", "d", "e", "x", " ", "o", "u", "t", " ", "o", "f", " ",
      "r", "a", "n", "g", "e">>
MsgNoGet ==
    <<"'", " ", "o", "b", "j", "e", "c", "t", " ", "h", "a", "s", " ", "n", "o", " ", "a", "t",
      "t", "r", "i", "b", "u", "t", "e", " ", "'", "g", "e", "t", "'">>
PyTypeName(v) ==
    CASE v.t = "list" -> <<"l", "i", "s", "t">>
      [] v.t = "str"  -> <<"s", "t", "r">>
      [] v.t = "int"  -> <<"i", "n", "t">>
      [] v.t = "null" -> <<"N", "o", "n", "e", "T", "y", "p", "e">>
      [] v.t \in {"true", "false"} -> <<"b", "o", "o", "l">>
      [] OTHER        -> <<"d", "i", "c", "t">>

\* str(e) for the outcome o of ParseModelText when line 116 catches it.
ExcText(o) ==
    CASE o.exc = "ValueError"     -> MsgUnexpected
      [] o.exc = "IndexError"     -> MsgIndex
      [] o.exc = "AttributeError" -> <<"'">> \o PyTypeName(JsonLoads(o.raw_text).val) \o MsgNoGet
      [] OTHER                    -> << >>

\* Lines 111-120: the detail of the 502 for the outcome o of ParseModelText.
Detail502(o) ==
    IF o.exc = "JSONDecodeError"
    THEN DetailNonJson \o Prefix(o.raw_text, DetailCap)
    ELSE DetailVertex \o ExcText(o)

(***************************************************************************)
(* Bounds and inputs.                                                      *)
(***************************************************************************)

\* Requests in flight together (the handler runs once per request; requests
\* served by different workers interleave at their store and model calls).
MaxRequests == 3

Reqs == 1..MaxRequests

\* Of these, the requests that take every input below; the others take the
\* example request and a well-formed answer of the model only.
MaxWideRequests == 2

\* How far past a cap the longest text goes.
MaxExcess == 2

WideReqs == 1..MaxWideRequests

\* Builders of request and model texts.
Quote == "\""
Lit(chars) == <<Quote>> \o chars \o <<Quote>>
JsonDoc(summaryText, tagsText) ==
    <<"{">> \o Lit(KeySummary) \o <<":">> \o summaryText \o <<",">>
            \o Lit(KeyTags) \o <<":">> \o tagsText \o <<"}">>
Fenced(tag, body) == Fence \o tag \o <<"\n">> \o body \o <<"\n">> \o Fence
LangJson == <<"j", "s", "o", "n">>

\* Request bodies: the example of the spec, one with an empty url, and one
\* with no url field, which SummarizeRequest (lines 66-69) rejects.
PayloadFields == {"url", "title", "content"}
ExamplePayload == [url |-> "http://a", title |-> "A", content |-> "hello"]
Payloads ==
    { ExamplePayload,
      [url |-> "", title |-> "B", content |-> ""],
      [title |-> "C", content |-> "hello"] }

NoPayload == [title |-> "", content |-> ""]

\* Texts the model may answer with (response.text, line 96).
TextFencedGood ==
    Fenced(LangJson, JsonDoc(Lit(<<"s">>), <<"[">> \o Lit(<<"x">>) \o <<",">> \o Lit(<<"y">>) \o <<"]">>))
TextNotJson == <<"o", "o", "p", "s">>
TextSummaryList == JsonDoc(<<"[">> \o Lit(<<"s">>) \o <<"]">>, <<"[">> \o Lit(<<"x">>) \o <<"]">>)
TextEmptySummary == JsonDoc(Lit(<< >>), <<"[">> \o Lit(<<"x">>) \o <<"]">>)

ModelTexts ==
    {TextFencedGood, TextNotJson, TextSummaryList, TextEmptySummary}

\* str(e) of a failed model call (line 119): a short message, and one longer
\* than the longest detail of a parse failure, as a gRPC status with its
\* details is.
ErrorQuota == <<"q", "u", "o", "t", "a">>
ErrorLong == [i \in 1..(DetailBound + MaxExcess) |-> "e"]
UpstreamErrors == {ErrorQuota, ErrorLong}

\* A text of the model that is no JSON and longer than DetailCap.
TextLongNotJson == [i \in 1..(DetailCap + MaxExcess) |-> "x"]

\* str(e) of a failed insert (line 134) and the message of the 422.
StoreError == <<"d", "o", "w", "n">>
MsgFieldRequired ==
    <<"F", "i", "e", "l", "d", " ", "r", "e", "q", "u", "i", "r", "e", "d">>

\* The counters of a freshly provisioned system_metrics row; power is kept in
\* hundredths of a watt (the column holds two decimals).
ZeroRow == [total_tabs_closed |-> 0, total_ram_saved_mb |-> 0, total_power_saved_watts |-> 0]

\* Row ids of system_metrics when it is provisioned with two rows.
MetricIds == {1, 2}

(***************************************************************************)
(* State.                                                                  *)
(***************************************************************************)
VARIABLES
    pc,             \* where each request is in summarize_tab
    payload,        \* the request body
    user_prompt,    \* local user_prompt
    response_text,  \* response.text of the model call
    raw_text,       \* local raw_text
    summary,        \* local summary
    tags,           \* local tags
    current,        \* local current: the metrics row as read
    status,         \* HTTP status of the response, 0 while running
    body,           \* the 200 response body
    exc,            \* the exception that ended the request, "none" otherwise
    detail,         \* the detail message of the error response
    archived_tabs,  \* table archived_tabs, in insertion order
    system_metrics, \* table system_metrics: id -> counters
    now,            \* the store's clock
    calls           \* per request, its outbound calls so far and their outcome

vars == <<pc, payload, user_prompt, response_text, raw_text, summary, tags, current,
          status, body, exc, detail, archived_tabs, system_metrics, now, calls>>

locals == <<user_prompt, response_text, raw_text, summary, tags, current>>
stores == <<archived_tabs, system_metrics, now>>

NoRow == [id |-> 0, total_tabs_closed |-> 0, total_ram_saved_mb |-> 0, total_power_saved_watts |-> 0]
NoBody == [status |-> "", summary |-> MkNull, tags |-> MkNull]
NoDetail == << >>

\* No request yet; system_metrics provisioned with one of the sets of row ids.
InitProvisioned(idSets) ==
    /\ pc = [r \in Reqs |-> "Idle"]
    /\ payload = [r \in Reqs |-> NoPayload]
    /\ user_prompt = [r \in Reqs |-> ""]
    /\ response_text = [r \in Reqs |-> << >>]
    /\ raw_text = [r \in Reqs |-> << >>]
    /\ summary = [r \in Reqs |-> MkNull]
    /\ tags = [r \in Reqs |-> MkNull]
    /\ current = [r \in Reqs |-> NoRow]
    /\ status = [r \in Reqs |-> 0]
    /\ body = [r \in Reqs |-> NoBody]
    /\ exc = [r \in Reqs |-> "none"]
    /\ detail = [r \in Reqs |-> NoDetail]
    /\ archived_tabs = << >>
    /\ \E ids \in idSets : system_metrics = [i \in ids |-> ZeroRow]
    /\ now = 0
    /\ calls = [r \in Reqs |-> << >>]

\* system_metrics holds its one row, or was left without any.
Init == InitProvisioned({{1}, {}})

(***************************************************************************)
(* summarize_tab, one action per step of the handler.                      *)
(***************************************************************************)

\* The per-event deltas of the metrics update (lines 152-156); power in
\* hundredths of a watt.
TabsPerArchive == 1
RamPerArchive == 400
PowerPerArchive == 18

\* round(x, 2) of a value given in thousandths, as hundredths.
Round2(milli) == (milli + 5) \div 10

Logged(r, op, ok) == [calls EXCEPT ![r] = Append(@, [op |-> op, ok |-> ok])]

\* raise HTTPException(status_code = code, detail = text): the request ends
\* without a body.
Raise(r, code, kind, text) ==
    /\ pc' = [pc EXCEPT ![r] = "Failed"]
    /\ status' = [status EXCEPT ![r] = code]
    /\ exc' = [exc EXCEPT ![r] = kind]
    /\ detail' = [detail EXCEPT ![r] = text]
    /\ body' = body

\* Line 165: build SummarizeResponse from the locals and return it; a value
\* the response model rejects raises ValidationError out of the handler, which
\* the framework answers with 500.
Respond(r) ==
    IF ResponseModelAccepts(summary[r], tags[r])
    THEN /\ pc' = [pc EXCEPT ![r] = "Done"]
         /\ status' = [status EXCEPT ![r] = 200]
         /\ body' = [body EXCEPT ![r] = [status |-> "ok", summary |-> summary[r], tags |-> tags[r]]]
         /\ UNCHANGED <<exc, detail>>
    ELSE Raise(r, 500, "ValidationError", NoDetail)

\* A request arrives.  Requests are taken in order of their number.
Receive(r, bodies) ==
    /\ pc[r] = "Idle"
    /\ IF r = 1 THEN TRUE ELSE pc[r - 1] # "Idle"
    /\ \E p \in bodies : payload' = [payload EXCEPT ![r] = p]
    /\ pc' = [pc EXCEPT ![r] = "Validating"]
    /\ UNCHANGED <<locals, status, body, exc, detail, stores, calls>>

\* Lines 66-69, 80-92: the framework binds the body to SummarizeRequest before
\* the handler runs; a body without one of the three string fields is answered
\* 422.  The handler then builds the prompt.
Validate(r) ==
    /\ pc[r] = "Validating"
    /\ \/ /\ DOMAIN payload[r] = PayloadFields
          /\ user_prompt' = [user_prompt EXCEPT ![r] = UserPrompt(payload[r])]
          /\ pc' = [pc EXCEPT ![r] = "Invoking"]
          /\ UNCHANGED <<status, body, exc, detail>>
       \/ /\ DOMAIN payload[r] # PayloadFields
          /\ Raise(r, 422, "RequestValidationError", MsgFieldRequired)
          /\ UNCHANGED user_prompt
    /\ UNCHANGED <<payload, response_text, raw_text, summary, tags, current, stores, calls>>

\* Mutant of InvokeModel: a failed model call is swallowed like a failed
\* metrics update and the handler goes on to the insert.
InvokeModelSwallowsFailure(r, texts, errors) ==
    /\ pc[r] = "Invoking"
    /\ \/ /\ \E text \in texts : response_text' = [response_text EXCEPT ![r] = text]
          /\ pc' = [pc EXCEPT ![r] = "Sanitizing"]
          /\ calls' = Logged(r, "generate_content", TRUE)
       \/ /\ pc' = [pc EXCEPT ![r] = "Persisting"]
          /\ calls' = Logged(r, "generate_content", FALSE)
          /\ UNCHANGED response_text
    /\ UNCHANGED <<payload, user_prompt, raw_text, summary, tags, current, status, body,
                   exc, detail, stores>>

\* Lines 95-96, 116-120: the model call, made with user_prompt.  It returns a
\* text, or generate_content or response.text raises with one of the messages
\* of errors, which line 116 turns into 502.
InvokeModel(r, texts, errors) ==
    /\ pc[r] = "Invoking"
    /\ \/ /\ \E text \in texts : response_text' = [response_text EXCEPT ![r] = text]
          /\ pc' = [pc EXCEPT ![r] = "Sanitizing"]
          /\ calls' = Logged(r, "generate_content", TRUE)
          /\ UNCHANGED <<status, body, exc, detail>>
       \/ /\ \E e \in errors : Raise(r, 502, "ModelError", DetailVertex \o e)
          /\ calls' = Logged(r, "generate_content", FALSE)
          /\ UNCHANGED response_text
    /\ UNCHANGED <<payload, user_prompt, raw_text, summary, tags, current, stores>>

\* Lines 96-120: strip, parse and check the text; any exception becomes 502.
Sanitize(r) ==
    LET o == ParseModelText(response_text[r])
    IN  /\ pc[r] = "Sanitizing"
        /\ raw_text' = [raw_text EXCEPT ![r] = o.raw_text]
        /\ \/ /\ o.exc = "none"
              /\ summary' = [summary EXCEPT ![r] = o.summary]
              /\ tags' = [tags EXCEPT ![r] = o.tags]
              /\ pc' = [pc EXCEPT ![r] = "Persisting"]
              /\ UNCHANGED <<status, body, exc, detail>>
           \/ /\ o.exc # "none"
              /\ Raise(r, 502, o.exc, Detail502(o))
              /\ UNCHANGED <<summary, tags>>
        /\ UNCHANGED <<payload, user_prompt, response_text, current, stores, calls>>

\* Mutant of InsertArchive: a failed insert is swallowed and the handler goes
\* on to the metrics update.
InsertArchiveNonFatal(r) ==
    /\ pc[r] = "Persisting"
    /\ now' = now + 1
    /\ \/ /\ archived_tabs' = Append(archived_tabs,
                 [url |-> payload[r].url, title |-> payload[r].title,
                  summary |-> summary[r], tags |-> tags[r], archived_at |-> now'])
          /\ calls' = Logged(r, "insert", TRUE)
       \/ /\ calls' = Logged(r, "insert", FALSE)
          /\ UNCHANGED archived_tabs
    /\ pc' = [pc EXCEPT ![r] = "UpdatingMetrics"]
    /\ UNCHANGED <<payload, locals, system_metrics, status, body, exc, detail>>

\* Mutant of InsertArchive: the record takes its url and title from the
\* newest request in place of this one.
InsertArchiveOfNewestRequest(r) ==
    LET newest == CHOOSE q \in Reqs : pc[q] # "Idle" /\ \A o \in Reqs : pc[o] # "Idle" => o <= q
    IN  /\ pc[r] = "Persisting"
        /\ now' = now + 1
        /\ \/ /\ archived_tabs' = Append(archived_tabs,
                     [url |-> payload[newest].url, title |-> payload[newest].title,
                      summary |-> summary[r], tags |-> tags[r], archived_at |-> now'])
              /\ pc' = [pc EXCEPT ![r] = "UpdatingMetrics"]
              /\ calls' = Logged(r, "insert", TRUE)
              /\ UNCHANGED <<status, body, exc, detail>>
           \/ /\ Raise(r, 500, "InsertError", DetailInsert \o StoreError)
              /\ calls' = Logged(r, "insert", FALSE)
              /\ UNCHANGED archived_tabs
        /\ UNCHANGED <<payload, locals, system_metrics>>

\* Mutant of InsertArchive: after a failed insert the handler tries again.
InsertArchiveRetries(r) ==
    /\ pc[r] = "Persisting"
    /\ now' = now + 1
    /\ \/ /\ archived_tabs' = Append(archived_tabs,
                 [url |-> payload[r].url, title |-> payload[r].title,
                  summary |-> summary[r], tags |-> tags[r], archived_at |-> now'])
          /\ pc' = [pc EXCEPT ![r] = "UpdatingMetrics"]
          /\ calls' = Logged(r, "insert", TRUE)
       \/ /\ calls' = Logged(r, "insert", FALSE)
          /\ UNCHANGED <<pc, archived_tabs>>
    /\ UNCHANGED <<payload, locals, system_metrics, status, body, exc, detail>>

\* Lines 123-135: insert the archive record; a failed insert becomes 500.
InsertArchive(r) ==
    /\ pc[r] = "Persisting"
    /\ now' = now + 1
    /\ \/ /\ archived_tabs' = Append(archived_tabs,
                 [url |-> payload[r].url, title |-> payload[r].title,
                  summary |-> summary[r], tags |-> tags[r], archived_at |-> now'])
          /\ pc' = [pc EXCEPT ![r] = "UpdatingMetrics"]
          /\ calls' = Logged(r, "insert", TRUE)
          /\ UNCHANGED <<status, body, exc, detail>>
       \/ /\ Raise(r, 500, "InsertError", DetailInsert \o StoreError)
          /\ calls' = Logged(r, "insert", FALSE)
          /\ UNCHANGED archived_tabs
    /\ UNCHANGED <<payload, locals, system_metrics>>

\* Lines 142-149: select * limit 1 single.  It returns one row, any of them
\* when there are several; with no row, or when the call fails, it raises,
\* line 159 swallows the exception and the handler goes on to respond.
ReadMetrics(r) ==
    /\ pc[r] = "UpdatingMetrics"
    /\ \/ /\ \E i \in DOMAIN system_metrics :
                current' = [current EXCEPT ![r] =
                    [id |-> i,
                     total_tabs_closed |-> system_metrics[i].total_tabs_closed,
                     total_ram_saved_mb |-> system_metrics[i].total_ram_saved_mb,
                     total_power_saved_watts |-> system_metrics[i].total_power_saved_watts]]
          /\ pc' = [pc EXCEPT ![r] = "WritingMetrics"]
          /\ calls' = Logged(r, "select", TRUE)
          /\ UNCHANGED <<status, body, exc, detail>>
       \/ /\ Respond(r)
          /\ calls' = Logged(r, "select", FALSE)
          /\ UNCHANGED current
    /\ UNCHANGED <<payload, user_prompt, response_text, raw_text, summary, tags, stores>>

\* Lines 151-157: write the counters computed from the row as read, into the
\* row with that id.
UpdatedRow(cur) ==
    [total_tabs_closed |-> cur.total_tabs_closed + TabsPerArchive,
     total_ram_saved_mb |-> cur.total_ram_saved_mb + RamPerArchive,
     total_power_saved_watts |-> Round2(10 * (cur.total_power_saved_watts + PowerPerArchive))]

\* Mutant of WriteMetrics: a failed update takes the newest archive record
\* back before the handler responds.
WriteMetricsRollsBack(r) ==
    /\ pc[r] = "WritingMetrics"
    /\ \/ /\ system_metrics' = [system_metrics EXCEPT ![current[r].id] = UpdatedRow(current[r])]
          /\ calls' = Logged(r, "update", TRUE)
          /\ UNCHANGED archived_tabs
       \/ /\ UNCHANGED system_metrics
          /\ calls' = Logged(r, "update", FALSE)
          /\ archived_tabs' = Slice(archived_tabs, 1, Len(archived_tabs) - 1)
    /\ Respond(r)
    /\ UNCHANGED <<payload, locals, now>>

\* Mutant of WriteMetrics: the update has no filter on the id and writes
\* every row.
WriteMetricsEveryRow(r) ==
    /\ pc[r] = "WritingMetrics"
    /\ \/ /\ system_metrics' = [i \in DOMAIN system_metrics |-> UpdatedRow(current[r])]
          /\ calls' = Logged(r, "update", TRUE)
       \/ /\ UNCHANGED system_metrics
          /\ calls' = Logged(r, "update", FALSE)
    /\ Respond(r)
    /\ UNCHANGED <<payload, locals, archived_tabs, now>>

\* Mutant of WriteMetrics: the counters are written by one call each, and a
\* failure comes after the first of them.
WriteMetricsInSeparateCalls(r) ==
    /\ pc[r] = "WritingMetrics"
    /\ \/ /\ system_metrics' = [system_metrics EXCEPT ![current[r].id] = UpdatedRow(current[r])]
          /\ calls' = Logged(r, "update", TRUE)
       \/ /\ system_metrics' = [system_metrics EXCEPT ![current[r].id].total_tabs_closed =
                                    current[r].total_tabs_closed + TabsPerArchive]
          /\ calls' = Logged(r, "update", FALSE)
    /\ Respond(r)
    /\ UNCHANGED <<payload, locals, archived_tabs, now>>

\* Lines 151-165: the update, then the response whether it worked or not.
WriteMetrics(r) ==
    /\ pc[r] = "WritingMetrics"
    /\ \/ /\ system_metrics' = [system_metrics EXCEPT ![current[r].id] = UpdatedRow(current[r])]
          /\ calls' = Logged(r, "update", TRUE)
       \/ /\ UNCHANGED system_metrics
          /\ calls' = Logged(r, "update", FALSE)
    /\ Respond(r)
    /\ UNCHANGED <<payload, locals, archived_tabs, now>>

\* Every input, for the requests of WideReqs.
Next ==
    \E r \in WideReqs :
        \/ Receive(r, Payloads)
        \/ Validate(r)
        \/ InvokeModel(r, ModelTexts, {ErrorQuota})
        \/ Sanitize(r)
        \/ InsertArchive(r)
        \/ ReadMetrics(r)
        \/ WriteMetrics(r)

Spec == Init /\ [][Next]_vars

\* One request, with every input.
NextSingle ==
    \/ Receive(1, Payloads)
    \/ Validate(1)
    \/ InvokeModel(1, ModelTexts \cup {TextLongNotJson}, UpstreamErrors)
    \/ Sanitize(1)
    \/ InsertArchive(1)
    \/ ReadMetrics(1)
    \/ WriteMetrics(1)

\* The server runs every step of a handler that can run, and the store answers
\* every call.  Nothing bounds the model call: lines 94-96 set no timeout and
\* no deadline, so the handler waits for as long as the model takes, and no
\* fairness is assumed of InvokeModel.  Sanitize(1) has an outcome for every
\* text, so it is enabled exactly when pc[1] = "Sanitizing", and its weak
\* fairness is written out with that guard.
Fairness ==
    /\ WF_vars(Validate(1))
    /\ ([]<>(pc[1] # "Sanitizing") \/ []<><<Sanitize(1)>>_vars)
    /\ WF_vars(InsertArchive(1))
    /\ WF_vars(ReadMetrics(1))
    /\ WF_vars(WriteMetrics(1))

\* system_metrics holds one row, two, or none.
InitSingle == InitProvisioned({{1}, MetricIds, {}})

SpecFair == InitSingle /\ [][NextSingle]_vars /\ Fairness

\* More requests at once, each the example request answered with a well-formed
\* text; the model call and the store calls fail or succeed as before.
\* system_metrics holds its one row, or two.
InitConcurrent == InitProvisioned({{1}, MetricIds})

NextConcurrent ==
    \E r \in Reqs :
        \/ Receive(r, {ExamplePayload})
        \/ Validate(r)
        \/ InvokeModel(r, {TextFencedGood}, {ErrorQuota})
        \/ Sanitize(r)
        \/ InsertArchive(r)
        \/ ReadMetrics(r)
        \/ WriteMetrics(r)

SpecConcurrent == InitConcurrent /\ [][NextConcurrent]_vars

\* Requests that differ in every field, answered with texts that differ in
\* summary and tags.
SecondPayload == [url |-> "http://b", title |-> "B", content |-> "bye"]
TextPlainGood == JsonDoc(Lit(<<"t">>), <<"[">> \o Lit(<<"z">>) \o <<"]">>)

NextPairs ==
    \E r \in WideReqs :
        \/ Receive(r, {ExamplePayload, SecondPayload})
        \/ Validate(r)
        \/ InvokeModel(r, {TextFencedGood, TextPlainGood}, {ErrorQuota})
        \/ Sanitize(r)
        \/ InsertArchive(r)
        \/ ReadMetrics(r)
        \/ WriteMetrics(r)

SpecPairs == Init /\ [][NextPairs]_vars

(***************************************************************************)
(* The sanitizer alone: one request whose model call has just returned,    *)
(* the text drawn from SanitizerTexts, and the step that parses it.        *)
(***************************************************************************)

\* Longest body made of arbitrary characters.
MaxJunk == 3

JunkChars == {Backtick, "\n", " ", "{", "}"}

RECURSIVE TextsUpTo(_)
\* Every text over JunkChars of at most n characters.
TextsUpTo(n) ==
    IF n = 0 THEN {<< >>}
    ELSE LET shorter == TextsUpTo(n - 1)
         IN  shorter \cup {Append(t, c) : t \in shorter, c \in JunkChars}

StrList1(a) == <<"[">> \o Lit(a) \o <<"]">>

\* JSON documents: well-formed answers (one with a fence inside its summary,
\* one with backticks ending a tag, one padded with whitespace) and documents
\* of another shape.
JsonBodies ==
    { JsonDoc(Lit(<<"s">>), StrList1(<<"x">>)),
      JsonDoc(Lit(<<"a">> \o Fence \o <<"b">>), <<"[", "]">>),
      JsonDoc(Lit(<<"s">>), StrList1(<<"x">> \o Fence)),
      <<" ", "\n">> \o JsonDoc(Lit(<<"t">>), <<"[", "]">>) \o <<"\n", "\f">>,
      JsonDoc(StrList1(<<"s">>), StrList1(<<"x">>)),
      JsonDoc(Lit(<<"s">>), Lit(<<"x">>)),
      JsonDoc(Lit(<< >>), StrList1(<<"x">>)),
      JsonDoc(<<"7">>, <<"[", "0", "]">>),
      JsonDoc(<<"n", "u", "l", "l">>, <<"[", "]">>),
      <<"{">> \o Lit(KeyTags) \o <<":", "[", "]", "}">>,
      <<"[">> \o Lit(<<"s">>) \o <<"]">>,
      Lit(KeySummary),
      <<"{">> \o Lit(KeySummary) \o <<":">> \o Lit(<<"s">>) \o <<",", "}">> }

Bodies == TextsUpTo(MaxJunk) \cup JsonBodies

\* What may follow the three backticks on the opening fence line.
FenceTags == {<< >>, LangJson}

\* An opening fence line and the body, with no closing fence.
OpenFenced(tag, b) == Fence \o tag \o <<"\n">> \o b

SanitizerTexts ==
    Bodies \cup {Fenced(t, b) : t \in FenceTags, b \in Bodies}
           \cup {OpenFenced(t, b) : t \in FenceTags, b \in Bodies}

InitSanitizer ==
    /\ pc = [r \in Reqs |-> IF r = 1 THEN "Sanitizing" ELSE "Idle"]
    /\ payload = [r \in Reqs |-> IF r = 1 THEN ExamplePayload ELSE NoPayload]
    /\ user_prompt = [r \in Reqs |-> IF r = 1 THEN UserPrompt(ExamplePayload) ELSE ""]
    /\ response_text \in {[r \in Reqs |-> IF r = 1 THEN t ELSE << >>] : t \in SanitizerTexts}
    /\ raw_text = [r \in Reqs |-> << >>]
    /\ summary = [r \in Reqs |-> MkNull]
    /\ tags = [r \in Reqs |-> MkNull]
    /\ current = [r \in Reqs |-> NoRow]
    /\ status = [r \in Reqs |-> 0]
    /\ body = [r \in Reqs |-> NoBody]
    /\ exc = [r \in Reqs |-> "none"]
    /\ detail = [r \in Reqs |-> NoDetail]
    /\ archived_tabs = << >>
    /\ system_metrics = [i \in {1} |-> ZeroRow]
    /\ now = 0
    /\ calls = [r \in Reqs |-> IF r = 1 THEN <<[op |-> "generate_content", ok |-> TRUE]>> ELSE << >>]

NextSanitizer == Sanitize(1)

SpecSanitizer == InitSanitizer /\ [][NextSanitizer]_vars

(***************************************************************************)
(* Long texts: one request whose content is as long as the cap, or a       *)
(* little shorter or longer, up to the parsing of the model's answer; the  *)
(* answer, or the message of the failed call, may be longer than the cap   *)
(* of the detail.                                                          *)
(***************************************************************************)

RECURSIVE Rep(_, _)
\* The string of n copies of c.
Rep(c, n) ==
    IF n = 0 THEN ""
    ELSE IF n % 2 = 1 THEN c \o Rep(c, n - 1)
    ELSE LET half == Rep(c, n \div 2) IN half \o half

ContentLengths == {0} \cup ((ContentCap - 1)..(ContentCap + MaxExcess))

\* Contents of these lengths; one of each length ends with a character of
\* its own.
PromptContents ==
    {Rep("a", n) : n \in ContentLengths}
        \cup {Rep("a", n - 1) \o "z" : n \in ContentLengths \ {0}}

PromptPayloads ==
    {[url |-> u, title |-> t, content |-> c] :
        u \in {"http://a", ""}, t \in {"A", ""}, c \in PromptContents}
        \cup {[title |-> "C", content |-> Rep("a", ContentCap + 1)]}

InitPrompt == InitProvisioned({{1}})

NextPrompt ==
    \/ Receive(1, PromptPayloads)
    \/ Validate(1)
    \/ InvokeModel(1, {TextNotJson, TextLongNotJson}, UpstreamErrors)
    \/ Sanitize(1)

SpecPrompt == InitPrompt /\ [][NextPrompt]_vars

(***************************************************************************)
(* Vocabulary of the properties.                                           *)
(***************************************************************************)
Finished(r) == pc[r] \in {"Done", "Failed"}
Quiescent == \A r \in Reqs : pc[r] = "Idle" \/ Finished(r)
HasCall(r, op, ok) == \E i \in 1..Len(calls[r]) : calls[r][i] = [op |-> op, ok |-> ok]
Attempted(r, op) == HasCall(r, op, TRUE) \/ HasCall(r, op, FALSE)
MetricsSucceeded(r) == HasCall(r, "select", TRUE) /\ HasCall(r, "update", TRUE)
MetricsFailed(r) == HasCall(r, "select", FALSE) \/ HasCall(r, "update", FALSE)
Outcome(r) == [exc |-> exc[r], raw_text |-> raw_text[r], summary |-> summary[r], tags |-> tags[r]]
Contains(text, p) == Find(text, p) # 0
\* The states of the pipeline that may follow each state; the read and the
\* write of the metrics are the two halves of UpdatingMetrics.
PipelineSuccessors(state) ==
    CASE state = "Idle"            -> {"Validating"}
      [] state = "Validating"      -> {"Invoking", "Failed"}
      [] state = "Invoking"        -> {"Sanitizing", "Failed"}
      [] state = "Sanitizing"      -> {"Persisting", "Failed"}
      [] state = "Persisting"      -> {"UpdatingMetrics", "Failed"}
      [] state = "UpdatingMetrics" -> {"WritingMetrics", "Done"}
      [] state = "WritingMetrics"  -> {"Done"}
      [] OTHER                     -> {}
CountCalls(r, op) == Cardinality({i \in 1..Len(calls[r]) : calls[r][i].op = op})
LastLine(s) == Slice(s, RFind(s, <<"\n">>) + 1, Len(s))
EndsWithFenceLine(s) == Strip(LastLine(Strip(s))) = Fence
PromptHeader(p) == "Title: " \o p.title \o "\nURL: " \o p.url \o "\n\nPage content:\n"
RowAfter(n) ==
    [total_tabs_closed |-> n, total_ram_saved_mb |-> 400 * n, total_power_saved_watts |-> 18 * n]

(***************************************************************************)
(* C1.  When every request that arrived has finished and each of them read *)
(* and wrote the metrics row successfully, the single metrics row shows N  *)
(* more tabs, 400*N more MB and 18*N more hundredths of a watt than at the *)
(* start (all zero), N being the number of those requests.  The handler    *)
(* reads the row and writes it back in two calls, so two requests that     *)
(* read the same value lose one increment: TLC refutes this.               *)
(***************************************************************************)
C1_NoIncrementLost ==
    LET arrived == {r \in Reqs : pc[r] # "Idle"}
    IN  ( /\ Quiescent
          /\ arrived # {}
          /\ \A r \in arrived : MetricsSucceeded(r)
          /\ DOMAIN system_metrics = {1} )
        => system_metrics[1] = RowAfter(Cardinality(arrived))

(***************************************************************************)
(* C2.  No step lowers a counter of a metrics row.  A request that read    *)
(* the row before two others updated it writes its stale value + 1 over    *)
(* theirs: TLC refutes this.                                               *)
(***************************************************************************)
C2_CountersNeverDecrease ==
    [][\A i \in DOMAIN system_metrics :
          /\ system_metrics'[i].total_tabs_closed >= system_metrics[i].total_tabs_closed
          /\ system_metrics'[i].total_ram_saved_mb >= system_metrics[i].total_ram_saved_mb
          /\ system_metrics'[i].total_power_saved_watts >= system_metrics[i].total_power_saved_watts]_vars

(***************************************************************************)
(* C3.  A request whose model call failed has made no other call (no       *)
(* insert, no select, no update), is Failed with status 502, and the step  *)
(* in which the call failed changed neither archived_tabs nor              *)
(* system_metrics.                                                         *)
(***************************************************************************)
C3_ModelFailureLeavesStoresAlone ==
    /\ [](\A r \in Reqs :
            HasCall(r, "generate_content", FALSE) =>
                /\ calls[r] = <<[op |-> "generate_content", ok |-> FALSE]>>
                /\ pc[r] = "Failed"
                /\ status[r] = 502)
    /\ [][\A r \in Reqs :
            (~HasCall(r, "generate_content", FALSE) /\ HasCall(r, "generate_content", FALSE)')
                => UNCHANGED <<archived_tabs, system_metrics>>]_vars

C3_Witness ==
    \E r \in Reqs :
        /\ HasCall(r, "generate_content", FALSE)
        /\ status[r] = 502
        /\ \E q \in Reqs : HasCall(q, "update", TRUE)

(***************************************************************************)
(* C4.  A request whose archived_tabs insert failed is Failed with status  *)
(* 500 (not 502, not 200), has made no call on system_metrics, and the     *)
(* step in which the insert failed left system_metrics unchanged.          *)
(***************************************************************************)
C4_InsertFailureIsFatal ==
    /\ [](\A r \in Reqs :
            HasCall(r, "insert", FALSE) =>
                /\ pc[r] = "Failed"
                /\ status[r] = 500
                /\ exc[r] = "InsertError"
                /\ ~Attempted(r, "select")
                /\ ~Attempted(r, "update"))
    /\ [][\A r \in Reqs :
            (~HasCall(r, "insert", FALSE) /\ HasCall(r, "insert", FALSE)')
                => UNCHANGED system_metrics]_vars

C4_Witness ==
    \E r \in Reqs :
        /\ HasCall(r, "insert", FALSE)
        /\ status[r] = 500
        /\ \E i \in DOMAIN system_metrics : system_metrics[i] # ZeroRow

(***************************************************************************)
(* C5.  A request whose insert succeeded and whose metrics step failed     *)
(* (the select or the update) finishes Done with status 200 and a body     *)
(* carrying the parsed summary and tags.  The handler lets through a       *)
(* summary that is not a string (see C8); the response model then rejects  *)
(* it and the request ends with 500: TLC refutes this.                     *)
(***************************************************************************)
C5_MetricsFailureStillAnswers200 ==
    \A r \in Reqs :
        (HasCall(r, "insert", TRUE) /\ MetricsFailed(r)) =>
            /\ pc[r] = "Done"
            /\ status[r] = 200
            /\ body[r] = [status |-> "ok", summary |-> summary[r], tags |-> tags[r]]

(***************************************************************************)
(* C6.  No step removes or changes a record of archived_tabs: the table    *)
(* only grows at its end.                                                  *)
(***************************************************************************)
C6_ArchiveRecordsAreKept ==
    [][/\ Len(archived_tabs') >= Len(archived_tabs)
       /\ \A i \in 1..Len(archived_tabs) : archived_tabs'[i] = archived_tabs[i]]_vars

C6_Witness ==
    \E r \in Reqs :
        /\ HasCall(r, "insert", TRUE)
        /\ HasCall(r, "update", FALSE)
        /\ Finished(r)
        /\ Len(archived_tabs) = 2

(***************************************************************************)
(* C7.  A request whose url is the empty string is rejected when it is     *)
(* validated: it is Failed with status 400 and has made no call.           *)
(* SummarizeRequest declares url: str and nothing more, so the empty url   *)
(* passes and the request runs like any other: TLC refutes this.           *)
(***************************************************************************)
C7_EmptyUrlIsRejected ==
    \A r \in Reqs :
        ( /\ "url" \in DOMAIN payload[r]
          /\ payload[r].url = ""
          /\ pc[r] \notin {"Idle", "Validating"} )
        => /\ pc[r] = "Failed"
           /\ status[r] = 400
           /\ calls[r] = << >>

(***************************************************************************)
(* C8.  Every record of archived_tabs has a summary that is a non-empty    *)
(* string and tags that are a list of strings.  Line 108 checks only that  *)
(* the summary is truthy and tags is a list, so a summary that is a        *)
(* non-empty list, or tags holding a non-string, is archived: TLC refutes  *)
(* this.                                                                   *)
(***************************************************************************)
C8_ArchivedRecordsAreWellShaped ==
    \A i \in 1..Len(archived_tabs) :
        /\ archived_tabs[i].summary.t = "str"
        /\ archived_tabs[i].summary.s # << >>
        /\ IsStrList(archived_tabs[i].tags)

(***************************************************************************)
(* C9.  A request answered 200 has a body with status "ok", a summary that *)
(* is a non-empty string holding no fence marker, and tags that are a list *)
(* of strings.  (The texts of ModelTexts carry fence markers only as a     *)
(* wrapper around the document.)                                           *)
(***************************************************************************)
C9_OkResponseIsWellShaped ==
    \A r \in Reqs :
        status[r] = 200 =>
            /\ pc[r] = "Done"
            /\ body[r].status = "ok"
            /\ body[r].summary.t = "str"
            /\ body[r].summary.s # << >>
            /\ ~Contains(body[r].summary.s, Fence)
            /\ IsStrList(body[r].tags)

C9_Witness ==
    \E r \in Reqs :
        /\ status[r] = 200
        /\ response_text[r] = TextFencedGood
        /\ body[r].summary = MkStr(<<"s">>)
        /\ body[r].tags = MkList(<<MkStr(<<"x">>), MkStr(<<"y">>)>>)

(***************************************************************************)
(* C10.  For every body that does not itself start with a fence (every     *)
(* JSON document is one) and every fence tag, the handler makes of the     *)
(* text "fence line, body, closing fence line" what it makes of the body   *)
(* alone: the same summary and tags, or the same exception on the same     *)
(* remaining text.                                                         *)
(***************************************************************************)
C10_FencedParsesAsBody ==
    \A b \in Bodies : \A t \in FenceTags :
        ( /\ pc[1] # "Sanitizing"
          /\ response_text[1] = Fenced(t, b)
          /\ ~StartsWith(Strip(b), Fence) )
        => Outcome(1) = ParseModelText(b)

C10_Witness ==
    /\ pc[1] = "Persisting"
    /\ response_text[1] = Fenced(LangJson, JsonDoc(Lit(<<"a">> \o Fence \o <<"b">>), <<"[", "]">>))
    /\ summary[1] = MkStr(<<"a">> \o Fence \o <<"b">>)
    /\ tags[1] = MkList(<< >>)

(***************************************************************************)
(* C11.  For a request that passed validation, from the state before the   *)
(* model call on, the prompt is the header followed by the content part;   *)
(* the content part is the first 30,000 characters of the content when the *)
(* content is longer than 30,000, and the content itself otherwise; and    *)
(* the request is Failed only if its model call was made (building the     *)
(* prompt raises nothing).                                                 *)
(***************************************************************************)
C11_PromptCarriesCappedContent ==
    \A r \in Reqs :
        (DOMAIN payload[r] = PayloadFields /\ pc[r] \notin {"Idle", "Validating"}) =>
            LET c == payload[r].content
                h == PromptHeader(payload[r])
                part == SubSeq(user_prompt[r], Len(h) + 1, Len(user_prompt[r]))
            IN  /\ Len(user_prompt[r]) >= Len(h)
                /\ SubSeq(user_prompt[r], 1, Len(h)) = h
                /\ IF Len(c) > ContentCap
                   THEN Len(part) = ContentCap /\ part = SubSeq(c, 1, ContentCap)
                   ELSE part = c
                /\ pc[r] = "Failed" => Attempted(r, "generate_content")

C11_Witness ==
    /\ pc[1] = "Invoking"
    /\ calls[1] = << >>
    /\ payload[1].content = Rep("a", ContentCap + MaxExcess - 1) \o "z"
    /\ user_prompt[1] = PromptHeader(payload[1]) \o Rep("a", ContentCap)

(***************************************************************************)
(* C12.  In every reachable state, whatever the interleaving of the        *)
(* requests and whichever of their calls failed or was never made, every   *)
(* metrics row (all counters zero at the start) has its three counters     *)
(* advanced together: ram = 400 * tabs and power, in hundredths of a watt, *)
(* = 18 * tabs.                                                            *)
(***************************************************************************)
C12_CountersAdvanceTogether ==
    \A i \in DOMAIN system_metrics :
        /\ system_metrics[i].total_ram_saved_mb
               = RamPerArchive * system_metrics[i].total_tabs_closed
        /\ system_metrics[i].total_power_saved_watts
               = PowerPerArchive * system_metrics[i].total_tabs_closed

C12_Witness ==
    \E r \in Reqs : \E q \in Reqs \ {r} : \E w \in Reqs \ {r, q} :
        /\ HasCall(r, "update", TRUE)
        /\ HasCall(q, "update", FALSE)
        /\ pc[w] = "WritingMetrics"
        /\ current[w].id = current[r].id
        /\ system_metrics[current[r].id].total_tabs_closed > current[w].total_tabs_closed

(***************************************************************************)
(* C13.  The detail of every 502 is at most DetailBound characters long,   *)
(* whatever the model answered and whatever the message of the upstream    *)
(* error.  The detail of a parse failure carries raw_text[:200] and keeps  *)
(* to it; the detail of a failed model call carries str(e) whole (line     *)
(* 119), so a long message gives a longer detail: TLC refutes this.        *)
(***************************************************************************)
C13_DetailIsBounded ==
    \A r \in Reqs : status[r] = 502 => Len(detail[r]) <= DetailBound

(***************************************************************************)
(* C14.  A request that is at its model call eventually is Done or Failed, *)
(* even if the model never answers.  The handler sets no timeout on        *)
(* generate_content, so a request whose call does not return stays at the  *)
(* call for ever: TLC refutes this under SpecFair.                         *)
(***************************************************************************)
C14_ModelCallEnds == (pc[1] = "Invoking") ~> Finished(1)

(***************************************************************************)
(* C15.  No step adds a row to system_metrics or removes one, and a step   *)
(* that changes a row is the metrics write of a request whose read         *)
(* succeeded and returned the id of that row; every other row stays as it  *)
(* is.                                                                     *)
(***************************************************************************)
C15_OnlyTheReadRowIsWritten ==
    [][/\ DOMAIN system_metrics' = DOMAIN system_metrics
       /\ \A i \in DOMAIN system_metrics :
             system_metrics'[i] # system_metrics[i] =>
                 \E r \in Reqs :
                     /\ pc[r] = "WritingMetrics"
                     /\ pc'[r] # "WritingMetrics"
                     /\ HasCall(r, "select", TRUE)
                     /\ current[r].id = i]_vars

C15_Witness ==
    /\ DOMAIN system_metrics = MetricIds
    /\ \E r \in Reqs : \E q \in Reqs :
          /\ HasCall(r, "update", TRUE) /\ current[r].id = 1
          /\ HasCall(q, "update", TRUE) /\ current[q].id = 2
          /\ system_metrics[1].total_tabs_closed = 1
          /\ system_metrics[2].total_tabs_closed = 1

(***************************************************************************)
(* C16.  Each request goes through Validating, Invoking, Sanitizing,       *)
(* Persisting, UpdatingMetrics and Done in this order, a failure in one of *)
(* the first four taking it to Failed at once; Failed is not entered from  *)
(* UpdatingMetrics; a finished request takes no further step; the insert   *)
(* is attempted only after the model call returned and its text parsed,    *)
(* and the metrics read only after the insert succeeded.  A summary that   *)
(* is no string passes line 108 (see C8), is archived, and the response    *)
(* model rejects it after the metrics step, so the request goes from       *)
(* UpdatingMetrics to Failed: TLC refutes this.                            *)
(***************************************************************************)
C16_PipelineOrder ==
    /\ [](\A r \in Reqs :
            /\ Attempted(r, "insert") =>
                  HasCall(r, "generate_content", TRUE) /\ summary[r] # MkNull
            /\ Attempted(r, "select") => HasCall(r, "insert", TRUE)
            /\ Attempted(r, "update") => HasCall(r, "select", TRUE))
    /\ [][\A r \in Reqs :
            /\ pc'[r] # pc[r] => pc'[r] \in PipelineSuccessors(pc[r])
            /\ Finished(r) => calls'[r] = calls[r]]_vars

(***************************************************************************)
(* C17.  A request makes each of its calls at most once: the model call,   *)
(* the insert, the metrics read and the metrics write.  archived_tabs      *)
(* holds as many records as there are requests whose insert succeeded; a   *)
(* request that is Done made exactly one insert, which succeeded, and a    *)
(* request that Failed before the insert made none.                        *)
(***************************************************************************)
C17_NoStepIsRetried ==
    /\ \A r \in Reqs :
          /\ \A op \in {"generate_content", "insert", "select", "update"} :
                CountCalls(r, op) <= 1
          /\ pc[r] = "Done" => HasCall(r, "insert", TRUE)
          /\ (pc[r] = "Failed" /\ status[r] \in {422, 502}) => ~Attempted(r, "insert")
    /\ Len(archived_tabs) = Cardinality({r \in Reqs : HasCall(r, "insert", TRUE)})

C17_Witness ==
    \E r \in Reqs : \E q \in Reqs :
        /\ pc[r] = "Done"
        /\ CountCalls(r, "update") = 1
        /\ pc[q] = "Failed"
        /\ HasCall(q, "insert", FALSE)
        /\ Len(archived_tabs) = 1

(***************************************************************************)
(* C18.  For every body that is not blank and every fence tag: of the text *)
(* "fence line, body" whose body does not end with a fence line the        *)
(* handler makes what parsing the body makes (the same remaining text,     *)
(* summary and tags, or the same exception), whatever the body holds; and  *)
(* of a text that does not begin with a fence it makes what parsing that   *)
(* text makes.  Both up to surrounding whitespace, which the handler       *)
(* strips.  Line 102 cuts the text at the last three backticks wherever    *)
(* they are, so a body with a fence marker inside a string value is cut    *)
(* inside that string: TLC refutes this.                                   *)
(***************************************************************************)
C18_OpenFenceDropsFirstLineOnly ==
    \A b \in Bodies :
        pc[1] # "Sanitizing" =>
            /\ \A t \in FenceTags :
                  ( /\ response_text[1] = OpenFenced(t, b)
                    /\ Strip(b) # << >>
                    /\ ~EndsWithFenceLine(b) )
                      => Outcome(1) = ParseResult(Strip(b))
            /\ (response_text[1] = b /\ ~StartsWith(Strip(b), Fence))
                  => Outcome(1) = ParseResult(Strip(b))

(***************************************************************************)
(* C19.  The step in which the insert of a request succeeds appends one    *)
(* record that carries the url and title of that request and the summary   *)
(* and tags parsed for it; and a request that is Done answered with that   *)
(* summary and those tags, which a record of archived_tabs carries next to *)
(* its url and title.  Requests in flight together differ in all four.     *)
(***************************************************************************)
C19_RecordMatchesRequestAndResponse ==
    /\ [](\A r \in Reqs :
            pc[r] = "Done" =>
                /\ body[r].summary = summary[r]
                /\ body[r].tags = tags[r]
                /\ \E i \in 1..Len(archived_tabs) :
                      /\ archived_tabs[i].url = payload[r].url
                      /\ archived_tabs[i].title = payload[r].title
                      /\ archived_tabs[i].summary = body[r].summary
                      /\ archived_tabs[i].tags = body[r].tags)
    /\ [][\A r \in Reqs :
            (~HasCall(r, "insert", TRUE) /\ HasCall(r, "insert", TRUE)') =>
                /\ Len(archived_tabs') = Len(archived_tabs) + 1
                /\ archived_tabs'[Len(archived_tabs')].url = payload[r].url
                /\ archived_tabs'[Len(archived_tabs')].title = payload[r].title
                /\ archived_tabs'[Len(archived_tabs')].summary = summary[r]
                /\ archived_tabs'[Len(archived_tabs')].tags = tags[r]
                /\ UNCHANGED <<payload, summary, tags>>]_vars

C19_Witness ==
    /\ pc[1] = "Done" /\ pc[2] = "Done"
    /\ payload[1] = SecondPayload /\ payload[2] = ExamplePayload
    /\ body[1].summary = MkStr(<<"t">>) /\ body[2].summary = MkStr(<<"s">>)
    /\ Len(archived_tabs) = 2
    /\ archived_tabs[1].url = "http://a" /\ archived_tabs[1].summary = MkStr(<<"s">>)
    /\ archived_tabs[2].url = "http://b" /\ archived_tabs[2].summary = MkStr(<<"t">>)

====
